---------------------------- MODULE Spec2Model ----------------------------
(***************************************************************************)
(* A model of kgocks/bamboo:                                               *)
(*   - bamboo/ml/ModelingData.py : the ModelingData container (features +  *)
(*     targets) with its splitting, balancing, filtering and threshold     *)
(*     summary operations;                                                 *)
(*   - BambooObjects.py : the Bamboo wrapper's attribute dispatch.         *)
(*                                                                         *)
(* Every operation of the program is a pure function of its receiver and   *)
(* its arguments.  The state of the model is therefore the receiver, the   *)
(* last call and what the call returned (or raised).                       *)
(*                                                                         *)
(* Encodings.  A pandas object is a record with an `index` (a sequence of  *)
(* row labels) and `data` (one entry per row).  Integer row labels are the *)
(* integers below StrBase; the label StrBase + i stands for a string label.*)
(* Positions are 0-based as in Python; the row at position p is entry p+1  *)
(* of the sequences.  Python's None is NoneArg where a number is expected. *)
(***************************************************************************)
EXTENDS Integers, Sequences, FiniteSets, TLC

VARIABLES
    orig,         \* the ModelingData instance first constructed
    self,         \* the receiver of the ModelingData calls
    call,         \* the last ModelingData call: operation and arguments
    ret,          \* its outcome: the returned instances, or the exception
    depth,        \* how many returned instances were used as next receiver
    df_call,      \* the last from_dataframe call
    df_ret,       \* its outcome
    ts_call,      \* the last get_threshold_summary call
    ts_ret,       \* its outcome
    module,       \* BambooObjects: state of the module after import
    wrapper,      \* BambooObjects: the Bamboo instance, once constructed
    attr_call,    \* BambooObjects: the last attribute looked up
    attr_ret      \* BambooObjects: what the lookup returned or raised

vars == <<orig, self, call, ret, depth, df_call, df_ret, ts_call, ts_ret,
          module, wrapper, attr_call, attr_ret>>

mdVars == <<orig, self, call, ret, depth>>
dfVars == <<df_call, df_ret>>
tsVars == <<ts_call, ts_ret>>
bambooVars == <<module, wrapper, attr_call, attr_ret>>

---------------------------------------------------------------------------
\* Bounds of the model.

MaxRows == 3
MaxChain == 1

---------------------------------------------------------------------------
\* Encodings of Python and pandas values.

StrBase == 100
NaNCell == 0 - 1
NoneArg == 0 - 1
NaNTarget == "NaN"

\* The target labels, in their natural (sorted) order.
Classes == <<"A", "B", "C">>

\* The feature columns of the tables the model builds, and their dtypes.
Columns == <<"x", "s">>

DType(col) == IF col = "x" THEN "int64" ELSE "object"

NUMERIC_TYPES == {"int64", "float64"}

---------------------------------------------------------------------------
\* Sequence helpers.

Range(s) == {s[i] : i \in 1..Len(s)}

IsUnique(s) == \A i, j \in 1..Len(s) : s[i] = s[j] => i = j

RECURSIVE Flatten(_)
Flatten(ss) == IF ss = <<>> THEN <<>> ELSE Head(ss) \o Flatten(Tail(ss))

\* All sequences of length k over S (np.random.choice's possible draws).
Draws(S, k) == {[i \in 1..k |-> f[i]] : f \in [1..k -> S]}

\* The ways to order the positions 0..n-1 (ShuffleSplit's permutation).
Permutations0(n) ==
    {p \in [1..n -> 0..(n - 1)] : \A i, j \in 1..n : p[i] = p[j] => i = j}

---------------------------------------------------------------------------
\* pandas objects.

Series(index, data) == [kind |-> "Series", index |-> index, data |-> data]

DataFrame(columns, index, data) ==
    [kind |-> "DataFrame", columns |-> columns, index |-> index, data |-> data]

PdLen(obj) == Len(obj.index)

\* The fill value of a row that reindexing does not find.
NaNFill(obj) ==
    IF obj.kind = "Series" THEN NaNTarget
    ELSE [c \in Range(obj.columns) |-> NaNCell]

WithRows(obj, index, data) ==
    IF obj.kind = "Series" THEN Series(index, data)
    ELSE DataFrame(obj.columns, index, data)

IsIntegerIndex(index) == index # <<>> /\ \A i \in 1..Len(index) : index[i] < StrBase

IsIntegerKeys(keys) == \A i \in 1..Len(keys) : keys[i] < StrBase

LabelPos(index, k) == CHOOSE i \in 1..Len(index) : index[i] = k

\* obj.take(keys): rows by 0-based position.
Take(obj, keys) ==
    WithRows(obj,
             [i \in 1..Len(keys) |-> obj.index[keys[i] + 1]],
             [i \in 1..Len(keys) |-> obj.data[keys[i] + 1]])

\* obj.reindex(keys): rows by label; a label the index lacks gives a NaN row.
Reindex(obj, keys) ==
    WithRows(obj,
             keys,
             [i \in 1..Len(keys) |->
                 IF keys[i] \in Range(obj.index)
                 THEN obj.data[LabelPos(obj.index, keys[i])]
                 ELSE NaNFill(obj)])

\* obj.ix[keys] for a list of keys: integer keys select by position only when
\* the index does not hold integers; otherwise the keys are labels.
Ix(obj, keys) ==
    IF IsIntegerKeys(keys) /\ ~IsIntegerIndex(obj.index)
    THEN Take(obj, keys)
    ELSE Reindex(obj, keys)

\* frame[names]: the frame restricted to the listed columns.
SelectColumns(frame, names) ==
    DataFrame(names, frame.index,
              [i \in 1..Len(frame.data) |->
                  [c \in Range(names) |-> frame.data[i][c]]])

---------------------------------------------------------------------------
\* Outcomes of a call.

Return(value) == [kind |-> "return", value |-> value]

Raise(exc, args) == [kind |-> "raise", exc |-> exc, args |-> args]

NoOutcome == [kind |-> "none"]

\* A call: the operation, its arguments and, for train_test_split, the
\* partition of row positions the shuffle-split drew.
Call(op, how, test_size, train_size, train, test) ==
    [op |-> op, how |-> how, test_size |-> test_size, train_size |-> train_size,
     train |-> train, test |-> test]

NoCall == Call("none", "none", NoneArg, NoneArg, <<>>, <<>>)

---------------------------------------------------------------------------
\* ModelingData.

ModelingData(features, targets) ==
    [features |-> features, targets |-> targets, weights |-> "None"]

\* len(md): (kind, value) with the assertion of line 43.
MDLen(md) ==
    IF PdLen(md.features) # PdLen(md.targets)
    THEN Raise("AssertionError", <<>>)
    ELSE Return(PdLen(md.targets))

\* The distinct non-missing target values, in sorted order (value_counts and
\* groupby both drop missing values and groupby iterates in sorted key order).
SortedClasses(targets) ==
    SelectSeq(Classes, LAMBDA c : \E i \in 1..Len(targets.data) : targets.data[i] = c)

\* targets.value_counts(): the number of rows of a class.
ValueCount(targets, c) ==
    Cardinality({i \in 1..Len(targets.data) : targets.data[i] = c})

num_classes(md) == Len(SortedClasses(md.targets))

\* The positions (1-based here) of the rows of class c, in row order.
GroupRows(targets, c) ==
    SelectSeq([i \in 1..Len(targets.data) |-> i], LAMBDA i : targets.data[i] = c)

\* group.index of the group of class c: the labels of its rows, in row order.
GroupIndex(obj, targets, c) ==
    LET rows == GroupRows(targets, c)
    IN  [j \in 1..Len(rows) |-> obj.index[rows[j]]]


---------------------------------------------------------------------------
\* train_test_split.  Sizes are fractions, written in percent.

DefaultTestSize == 25

CeilPct(p, n) == (p * n + 99) \div 100

FloorPct(p, n) == (p * n) \div 100

\* sklearn's validation of the two sizes: <<n_train, n_test>>, or ValueError.
ValidateShuffleSplit(n, test_size, train_size) ==
    IF test_size # NoneArg /\ test_size >= 100
    THEN Raise("ValueError", <<"test_size">>)
    ELSE IF train_size # NoneArg /\ train_size >= 100
    THEN Raise("ValueError", <<"train_size">>)
    ELSE IF test_size # NoneArg /\ train_size # NoneArg /\ test_size + train_size > 100
    THEN Raise("ValueError", <<"sum">>)
    ELSE LET n_test0 == IF test_size # NoneArg THEN CeilPct(test_size, n) ELSE 0
             n_train == IF train_size = NoneArg THEN n - n_test0
                        ELSE FloorPct(train_size, n)
             n_test  == IF test_size = NoneArg THEN n - n_train ELSE n_test0
         IN  IF n_train + n_test > n
             THEN Raise("ValueError", <<"sum">>)
             ELSE Return(<<n_train, n_test>>)

\* next(iter(ShuffleSplit(...))): one shuffled partition <<train, test>> of
\* 0-based row positions; the test positions are the head of the permutation.
ShuffleSplit(n, n_train, n_test) ==
    {<<SubSeq(p, n_test + 1, n_test + n_train), SubSeq(p, 1, n_test)>> :
        p \in Permutations0(n)}

\* The test instance's targets, as line 97 builds them.
TestTargets(md, test) == Ix(md.features, test)

\* Lines 78-89: the sizes handed to ShuffleSplit, validated.
SplitSizes(md, test_size_arg, train_size_arg) ==
    LET test_size == IF test_size_arg = NoneArg /\ train_size_arg = NoneArg
                     THEN DefaultTestSize ELSE test_size_arg
        train_size == train_size_arg
        n_samples == PdLen(md.targets)
    IN  ValidateShuffleSplit(n_samples, test_size, train_size)

\* Lines 91-99: the two instances built from the partition drawn.
train_test_split(md, train, test) ==
    LET X_train == Ix(md.features, train)
        y_train == Ix(md.targets, train)
        X_test == Ix(md.features, test)
        y_test == TestTargets(md, test)
    IN  Return(<<ModelingData(X_train, y_train), ModelingData(X_test, y_test)>>)

---------------------------------------------------------------------------
\* Class balancing.

\* targets.value_counts().min(); no class at all gives no group to cut.
GroupSize(targets) ==
    LET cls == SortedClasses(targets)
    IN  IF cls = <<>> THEN 0
        ELSE CHOOSE m \in {ValueCount(targets, cls[j]) : j \in 1..Len(cls)} :
                 \A j \in 1..Len(cls) : m <= ValueCount(targets, cls[j])

\* A slip: group[-group_size:].index, the last rows of the group.
GroupHead_Last(index, group_size) ==
    SubSeq(index,
           IF group_size < Len(index) THEN Len(index) - group_size + 1 ELSE 1,
           Len(index))

\* group[:group_size].index
GroupHead(index, group_size) ==
    SubSeq(index, 1, IF group_size < Len(index) THEN group_size ELSE Len(index))

_balance_by_truncation(md) ==
    IF md.targets.kind # "Series"
    THEN Raise("AttributeError", <<"value_counts">>)
    ELSE LET group_size == GroupSize(md.targets)
             cls == SortedClasses(md.targets)
             indices == Flatten([j \in 1..Len(cls) |->
                            GroupHead(GroupIndex(md.features, md.targets, cls[j]),
                                      group_size)])
         IN  Return(ModelingData(Ix(md.features, indices), Ix(md.targets, indices)))

\* A slip: the quotient rounded up.
ApproxNumPerClass_Ceil(size, n_classes) == (size + n_classes - 1) \div n_classes

\* size / num_classes() is a float; numpy cuts it to an integer draw count.
ApproxNumPerClass(size, n_classes) == size \div n_classes

RECURSIVE SampleIndices(_, _, _)
SampleIndices(targets, cls, k) ==
    IF cls = <<>> THEN {<<>>}
    ELSE {a \o b : a \in Draws(Range(GroupIndex(targets, targets, Head(cls))), k),
                   b \in SampleIndices(targets, Tail(cls), k)}

\* The outcomes _balance_by_sample_with_replace() can have (size=None).
_balance_by_sample_with_replace(md) ==
    LET size == MDLen(md)
    IN  IF size.kind = "raise" THEN {size}
        ELSE IF md.targets.kind # "Series"
        THEN {Raise("AttributeError", <<"value_counts">>)}
        ELSE IF num_classes(md) = 0
        THEN {Raise("ZeroDivisionError", <<>>)}
        ELSE LET approx_num_per_class == ApproxNumPerClass(size.value, num_classes(md))
             IN  {Return(ModelingData(Ix(md.features, indices),
                                      Ix(md.targets, indices))) :
                     indices \in SampleIndices(md.targets, SortedClasses(md.targets),
                                               approx_num_per_class)}

\* A slip: every `how` but 'truncate' taken for the default.
get_balanced_ElseSample(md, how) ==
    IF how = "truncate" THEN {_balance_by_truncation(md)}
    ELSE _balance_by_sample_with_replace(md)

\* The outcomes get_balanced(how) can have.
get_balanced(md, how) ==
    IF how = "truncate" THEN {_balance_by_truncation(md)}
    ELSE IF how = "sample" THEN _balance_by_sample_with_replace(md)
    ELSE {Raise("AttributeError", <<>>)}

---------------------------------------------------------------------------
\* numeric_features.

numeric_features(md) ==
    LET numeric_feature_names ==
            SelectSeq(md.features.columns, LAMBDA c : DType(c) \in NUMERIC_TYPES)
    IN  Return(ModelingData(SelectColumns(md.features, numeric_feature_names),
                            md.targets))

---------------------------------------------------------------------------
\* The instances a program constructs to begin with: n rows, a unique row
\* index shared by features and targets, one class label per row.

IndexSchemes == {"range", "offset", "str"}

MakeIndex(scheme, n) ==
    [i \in 1..n |->
        CASE scheme = "range"  -> i - 1
          [] scheme = "offset" -> i
          [] OTHER             -> StrBase + i]

MakeFeatures(index) ==
    DataFrame(Columns, index,
              [i \in 1..Len(index) |-> [c \in Range(Columns) |->
                                           IF c = "x" THEN 10 + i ELSE 20 + i]])

InitialInstances ==
    {ModelingData(MakeFeatures(MakeIndex(scheme, Len(t))),
                  Series(MakeIndex(scheme, Len(t)), t)) :
        scheme \in IndexSchemes,
        t \in UNION {[1..n -> Range(Classes)] : n \in 1..MaxRows}}

TestSizes == {NoneArg, 50, 100}

TrainSizes == {NoneArg, 25}

HowArgs == {"<default>", "truncate", "sample", "bogus"}

\* get_balanced's default for `how`.
HowValue(arg) == IF arg = "<default>" THEN "sample" ELSE arg

\* The instances a call returned.
Returned(c, r) ==
    IF r.kind # "return" THEN {}
    ELSE IF c.op = "train_test_split" THEN {r.value[1], r.value[2]}
    ELSE {r.value}

\* The values of the variables of a component no call has touched.
Idle == [op |-> "none"]

NoInstance == ModelingData(DataFrame(<<>>, <<>>, <<>>), Series(<<>>, <<>>))

MDInit ==
    /\ orig \in InitialInstances
    /\ self = orig
    /\ call = NoCall
    /\ ret = NoOutcome
    /\ depth = 0
    /\ df_call = Idle /\ df_ret = NoOutcome
    /\ ts_call = Idle /\ ts_ret = NoOutcome
    /\ module = Idle /\ wrapper = Idle /\ attr_call = Idle /\ attr_ret = NoOutcome

\* A behaviour is one chain of calls: the caller is either about to call an
\* operation on `self` (Ready) or holds the outcome of the call it made.
Ready == call = NoCall

TrainTestSplit ==
    /\ Ready
    /\ \E test_size \in TestSizes, train_size \in TrainSizes :
        LET sizes == SplitSizes(self, test_size, train_size)
        IN  IF sizes.kind = "raise"
            THEN /\ call' = Call("train_test_split", "none", test_size, train_size,
                                 <<>>, <<>>)
                 /\ ret' = sizes
            ELSE \E cv \in ShuffleSplit(PdLen(self.targets),
                                        sizes.value[1], sizes.value[2]) :
                 /\ call' = Call("train_test_split", "none", test_size, train_size,
                                 cv[1], cv[2])
                 /\ ret' = train_test_split(self, cv[1], cv[2])
    /\ UNCHANGED <<orig, self, depth>>
    /\ UNCHANGED <<dfVars, tsVars, bambooVars>>

GetBalanced ==
    /\ Ready
    /\ \E arg \in HowArgs :
        \E r \in get_balanced(self, HowValue(arg)) :
            /\ call' = Call("get_balanced", HowValue(arg), NoneArg, NoneArg,
                             <<>>, <<>>)
            /\ ret' = r
            /\ UNCHANGED <<orig, self, depth>>
            /\ UNCHANGED <<dfVars, tsVars, bambooVars>>

NumericFeatures ==
    /\ Ready
    /\ call' = Call("numeric_features", "none", NoneArg, NoneArg, <<>>, <<>>)
    /\ ret' = numeric_features(self)
    /\ UNCHANGED <<orig, self, depth>>
    /\ UNCHANGED <<dfVars, tsVars, bambooVars>>

\* The caller goes on with an instance it was handed: md2 = md.op(...), then
\* md2.op(...).  Followed for instances with at least one row and a unique
\* row index.
Chain ==
    /\ depth < MaxChain
    /\ \E md \in Returned(call, ret) :
           /\ PdLen(md.features) > 0
           /\ IsUnique(md.features.index)
           /\ self' = md
    /\ call' = NoCall
    /\ ret' = NoOutcome
    /\ depth' = depth + 1
    /\ UNCHANGED orig
    /\ UNCHANGED <<dfVars, tsVars, bambooVars>>

MDNext ==
    \/ TrainTestSplit
    \/ GetBalanced
    \/ NumericFeatures
    \/ Chain

SpecMD == MDInit /\ [][MDNext]_vars

---------------------------------------------------------------------------
\* from_dataframe.  Python values that the code compares across types carry
\* their type.

PyNone == [type |-> "NoneType"]

PyStr(v) == [type |-> "str", val |-> v]

PyList(v) == [type |-> "list", val |-> v]

\* Python's a != b.
PyNe(a, b) == a.type # b.type \/ a.val # b.val

\* frame[name]: the column as a Series.
SelectColumn(frame, name) ==
    Series(frame.index, [i \in 1..Len(frame.data) |-> frame.data[i][name]])

\* Lines 33-35: the feature names used when the caller gives none.
DefaultFeatures(df, target, features) ==
    SelectSeq(df.columns, LAMBDA feature : PyNe(features, PyStr(target)))

from_dataframe(df, target, features) ==
    IF target \notin Range(df.columns) THEN Raise("KeyError", <<target>>)
    ELSE LET target_data == SelectColumn(df, target)
             names == IF features = PyNone
                      THEN DefaultFeatures(df, target, features)
                      ELSE features.val
         IN  IF \E i \in 1..Len(names) : names[i] \notin Range(df.columns)
             THEN Raise("KeyError", names)
             ELSE Return(ModelingData(SelectColumns(df, names), target_data))

\* The tables from_dataframe is called on: some arrangement of the column
\* names, MaxFrameRows rows.
MaxFrameRows == 2

FrameColumnNames == {"a", "b", "y"}

ColumnLists ==
    UNION {{c \in [1..n -> FrameColumnNames] : IsUnique(c)} :
              n \in 1..Cardinality(FrameColumnNames)}

CellOf(name, i) ==
    CASE name = "a" -> 10 + i
      [] name = "b" -> 20 + i
      [] OTHER      -> i % 2

MakeFrame(columns, n) ==
    DataFrame(columns, [i \in 1..n |-> i - 1],
              [i \in 1..n |-> [c \in Range(columns) |-> CellOf(c, i)]])

DFInit ==
    /\ df_call = Idle /\ df_ret = NoOutcome
    /\ orig = NoInstance /\ self = NoInstance
    /\ call = NoCall /\ ret = NoOutcome /\ depth = 0
    /\ ts_call = Idle /\ ts_ret = NoOutcome
    /\ module = Idle /\ wrapper = Idle /\ attr_call = Idle /\ attr_ret = NoOutcome

\* A static function without state: a behaviour is one call of it.
FromDataframe ==
    /\ df_call = Idle
    /\ \E columns \in ColumnLists, n \in 1..MaxFrameRows, target \in FrameColumnNames,
          features \in {PyNone} \cup {PyList(c) : c \in ColumnLists} :
           /\ df_call' = [op |-> "from_dataframe", df |-> MakeFrame(columns, n),
                          target |-> target, features |-> features]
           /\ df_ret' = from_dataframe(MakeFrame(columns, n), target, features)
    /\ UNCHANGED <<mdVars, tsVars, bambooVars>>

DFNext == FromDataframe

SpecFromDataframe == DFInit /\ [][DFNext]_vars

---------------------------------------------------------------------------
\* get_threshold_summary.  Probabilities and thresholds are in percent; a
\* quotient a / b is kept as the fraction it is.

DefaultThreshold == 50

Quotient(a, b) == [num |-> a, den |-> b]

\* "proba_{}".format(target)
ProbaLabel(target) == "proba_" \o target

\* Lines 241-242: the records counted as true and as false negatives.
TrueNegatives(positives, negatives, target) ==
    SelectSeq(positives, LAMBDA r : r.target # target)

FalseNegatives(positives, negatives, target) ==
    SelectSeq(positives, LAMBDA r : r.target = target)

\* Lines 254-255: the numerators of the two rates.
FalsePositiveRate(num_true_positives, num_false_positives, num) ==
    Quotient(num_true_positives, num)

TruePositiveRate(num_true_positives, num_false_positives, num) ==
    Quotient(num_false_positives, num)

get_threshold_summary(probability_summary, target, threshold) ==
    LET probability_label == ProbaLabel(target)
    IN  IF \/ probability_summary = <<>>
           \/ probability_label \notin DOMAIN probability_summary[1]
        THEN Raise("KeyError", <<probability_label>>)
        ELSE
        LET positives == SelectSeq(probability_summary,
                                   LAMBDA r : r[probability_label] >= threshold)
            true_positives == SelectSeq(positives, LAMBDA r : r.target = target)
            false_positives == SelectSeq(positives, LAMBDA r : r.target # target)
            negatives == SelectSeq(probability_summary,
                                   LAMBDA r : r[probability_label] < threshold)
            true_negatives == TrueNegatives(positives, negatives, target)
            false_negatives == FalseNegatives(positives, negatives, target)
            num == Len(probability_summary)
            num_positives == Len(positives)
            num_negatives == Len(negatives)
            num_true_positives == Len(true_positives)
            num_false_positives == Len(false_positives)
            num_true_negatives == Len(true_negatives)
            num_false_negatives == Len(false_negatives)
        IN  IF \/ num = 0
               \/ num_positives = 0
               \/ num_true_positives + num_false_negatives = 0
               \/ 2 * num_true_positives + num_false_positives + num_false_negatives = 0
            THEN Raise("ZeroDivisionError", <<>>)
            ELSE
            LET false_positive_rate ==
                    FalsePositiveRate(num_true_positives, num_false_positives, num)
                true_positive_rate ==
                    TruePositiveRate(num_true_positives, num_false_positives, num)
                precision == Quotient(num_true_positives, num_positives)
                recall == Quotient(num_true_positives,
                                   num_true_positives + num_false_negatives)
                sensitivity == recall
                specificity ==
                    IF num_false_positives + num_true_negatives > 0
                    THEN Quotient(num_true_negatives,
                                  num_false_positives + num_true_negatives)
                    ELSE Quotient(1, 1)
                accuracy == Quotient(num_true_positives + num_true_negatives, num)
                f1 == Quotient(2 * num_true_positives,
                               2 * num_true_positives + num_false_positives
                                   + num_false_negatives)
            IN  Return([threshold |-> threshold,
                        target |-> target,
                        true_positives |-> num_true_positives,
                        false_positives |-> num_false_positives,
                        true_negatives |-> num_true_negatives,
                        false_negatives |-> num_false_negatives,
                        precision |-> precision,
                        recall |-> recall,
                        sensiticity |-> sensitivity,
                        specificity |-> specificity,
                        accuracy |-> accuracy,
                        f1 |-> f1,
                        false_positive_rate |-> false_positive_rate,
                        true_positive_rate |-> true_positive_rate])

\* The probability records handed in: as predict_proba builds them for the
\* targets A and B, up to MaxRecords of them.
MaxRecords == 3

ProbaValues == {20, 50, 80}

ProbaRecords ==
    [proba_A : ProbaValues, proba_B : ProbaValues, target : {"A", "B"}]

ThresholdArgs == {NoneArg, 80}

TSInit ==
    /\ ts_call = Idle /\ ts_ret = NoOutcome
    /\ orig = NoInstance /\ self = NoInstance
    /\ call = NoCall /\ ret = NoOutcome /\ depth = 0
    /\ df_call = Idle /\ df_ret = NoOutcome
    /\ module = Idle /\ wrapper = Idle /\ attr_call = Idle /\ attr_ret = NoOutcome

\* A static function without state: a behaviour is one call of it.
GetThresholdSummary ==
    /\ ts_call = Idle
    /\ \E n \in 0..MaxRecords :
        \E probability_summary \in [1..n -> ProbaRecords],
           target \in {"A", "B", "C"}, arg \in ThresholdArgs :
           LET threshold == IF arg = NoneArg THEN DefaultThreshold ELSE arg
           IN  /\ ts_call' = [op |-> "get_threshold_summary",
                              probability_summary |-> probability_summary,
                              target |-> target, threshold |-> threshold]
               /\ ts_ret' = get_threshold_summary(probability_summary, target,
                                                  threshold)
    /\ UNCHANGED <<mdVars, dfVars, bambooVars>>

TSNext == GetThresholdSummary

SpecThreshold == TSInit /\ [][TSNext]_vars

---------------------------------------------------------------------------
\* BambooObjects.py: the Bamboo wrapper.

\* The names the function libraries may define and attributes may be asked for.
MethodNames == {"head", "map"}

AttrNames == {"head", "map", "shape", "nope"}

ObjKinds == {"DataFrame", "GroupBy", "Series"}

\* The attributes the wrapped pandas object has itself.
OwnAttrs(kind) ==
    CASE kind = "DataFrame" -> {"head", "shape"}
      [] kind = "GroupBy"   -> {"head"}
      [] OTHER              -> {"head", "map", "shape"}

\* Lines 2-8 bind pd, GroupBy, getmembers, isfunction, bamboo, groups and
\* frames in the module; any other global name resolves through the builtins.
ModuleGlobals == {"pd", "GroupBy", "getmembers", "isfunction", "bamboo", "groups", "frames"}

Resolves(name, builtins) == name \in ModuleGlobals \/ name \in builtins

\* Lines 15-24: the callable handed out for an extension function; `table`
\* and `name` say which function it calls, `obj` what it passes first.
_create_bamboo_wrapper(obj, table, name) ==
    [type |-> "callable", table |-> table, func |-> name, obj |-> obj.obj]

\* object.__getattribute__(*args): needs exactly the attribute name.
ObjGetAttribute(kind, args) ==
    IF Len(args) # 1
    THEN Raise("TypeError", <<>>)
    ELSE IF args[1] \in OwnAttrs(kind)
    THEN Return([type |-> "attribute", table |-> "own", func |-> args[1], obj |-> kind])
    ELSE Raise("AttributeError", <<args[1]>>)

\* Line 56: what the fallback hands to __getattribute__.
FallbackArgs(args0) == Tail(args0)

\* Lines 41-56: Bamboo.__getattr__(*args).
Bamboo__getattr__(w, m, args0) ==
    LET name == args0[1]
        args == FallbackArgs(args0)
    IN  IF (w._is_data_frame \/ w._is_group_by) /\ name \in m._bamboo_methods
        THEN Return(_create_bamboo_wrapper(w, "bamboo", name))
        ELSE IF w._is_data_frame /\ name \in m._frames_methods
        THEN Return(_create_bamboo_wrapper(w, "frames", name))
        ELSE IF w._is_group_by /\ name \in m._groups_methods
        THEN Return(_create_bamboo_wrapper(w, "groups", name))
        ELSE ObjGetAttribute(w.obj, args)

BambooInit ==
    /\ module \in [op : {"unloaded"}, builtins : {{}, {"pandas"}},
                   _bamboo_methods : SUBSET MethodNames,
                   _frames_methods : SUBSET MethodNames,
                   _groups_methods : SUBSET MethodNames]
    /\ wrapper = Idle /\ attr_call = Idle /\ attr_ret = NoOutcome
    /\ orig = NoInstance /\ self = NoInstance
    /\ call = NoCall /\ ret = NoOutcome /\ depth = 0
    /\ df_call = Idle /\ df_ret = NoOutcome
    /\ ts_call = Idle /\ ts_ret = NoOutcome

\* import BambooObjects: lines 10-12 fill the three tables; the class
\* statements of lines 59 and 79 evaluate pandas.DataFrame.
ImportModule ==
    /\ module.op = "unloaded"
    /\ module' = [module EXCEPT !.op = IF Resolves("pandas", module.builtins)
                                       THEN "loaded" ELSE "NameError"]
    /\ UNCHANGED <<wrapper, attr_call, attr_ret>>
    /\ UNCHANGED <<mdVars, dfVars, tsVars>>

\* Bamboo(obj): lines 35-38.
Construct ==
    /\ module.op = "loaded"
    /\ wrapper = Idle
    /\ \E kind \in ObjKinds :
           wrapper' = [op |-> "Bamboo", obj |-> kind,
                       _is_data_frame |-> (kind = "DataFrame"),
                       _is_group_by |-> (kind = "GroupBy")]
    /\ UNCHANGED <<module, attr_call, attr_ret>>
    /\ UNCHANGED <<mdVars, dfVars, tsVars>>

\* wrapper.<name>, for a name ordinary lookup does not find on the wrapper.
GetAttr ==
    /\ wrapper # Idle
    /\ \E name \in AttrNames :
           /\ attr_call' = [op |-> "__getattr__", name |-> name]
           /\ attr_ret' = Bamboo__getattr__(wrapper, module, <<name>>)
    /\ UNCHANGED <<module, wrapper>>
    /\ UNCHANGED <<mdVars, dfVars, tsVars>>

BambooNext ==
    \/ ImportModule
    \/ Construct
    \/ GetAttr

SpecBamboo == BambooInit /\ [][BambooNext]_vars

---------------------------------------------------------------------------
\* Properties of from_dataframe, get_threshold_summary and the wrapper.

\* C7: from_dataframe(table, target) with the feature names omitted returns
\* the columns of the table except the target as features, and the target
\* column as targets.
C7_DefaultFeaturesExcludeTarget ==
    (df_call # Idle /\ df_call.features = PyNone /\ df_ret.kind = "return") =>
        /\ df_call.target \notin Range(df_ret.value.features.columns)
        /\ df_ret.value.features.columns =
               SelectSeq(df_call.df.columns, LAMBDA c : c # df_call.target)
        /\ df_ret.value.targets.data =
               [i \in 1..Len(df_call.df.data) |-> df_call.df.data[i][df_call.target]]

\* The number of records of the call that satisfy a condition on the
\* probability of the target and on the label.
CountRecords(positive, same) ==
    LET ps == ts_call.probability_summary
        label == ProbaLabel(ts_call.target)
    IN  Cardinality({i \in 1..Len(ps) :
            /\ (ps[i][label] >= ts_call.threshold) = positive
            /\ (ps[i].target = ts_call.target) = same})

\* C2: the summary counts are those of the confusion matrix at the threshold,
\* and so add up to the number of records.
C2_ConfusionCounts ==
    (ts_call # Idle /\ ts_ret.kind = "return") =>
        /\ ts_ret.value.true_positives = CountRecords(TRUE, TRUE)
        /\ ts_ret.value.false_positives = CountRecords(TRUE, FALSE)
        /\ ts_ret.value.true_negatives = CountRecords(FALSE, FALSE)
        /\ ts_ret.value.false_negatives = CountRecords(FALSE, TRUE)
        /\ ts_ret.value.true_positives + ts_ret.value.false_positives
             + ts_ret.value.true_negatives + ts_ret.value.false_negatives
               = Len(ts_call.probability_summary)

\* The quotient q has the value a / b.
IsQuotient(q, a, b) == q.den # 0 /\ b # 0 /\ q.num * b = a * q.den

\* C10: false_positive_rate is false_positives / total, true_positive_rate is
\* true_positives / total and accuracy is (true_positives + true_negatives) /
\* total.
C10_RatesOverTotal ==
    (ts_call # Idle /\ ts_ret.kind = "return") =>
        LET total == Len(ts_call.probability_summary)
            v == ts_ret.value
        IN  /\ IsQuotient(v.false_positive_rate, v.false_positives, total)
            /\ IsQuotient(v.true_positive_rate, v.true_positives, total)
            /\ IsQuotient(v.accuracy, v.true_positives + v.true_negatives, total)

\* C8: a name found in an extension table that applies to the wrapped object
\* (the shared table first) gives a callable for that function; any other name
\* gives the wrapped object's own attribute of that name.
C8_DispatchThenFallback ==
    (attr_call # Idle /\ wrapper.obj \in {"DataFrame", "GroupBy"}) =>
        LET name == attr_call.name
            isFrame == wrapper.obj = "DataFrame"
            table == IF name \in module._bamboo_methods THEN "bamboo"
                     ELSE IF isFrame /\ name \in module._frames_methods THEN "frames"
                     ELSE IF ~isFrame /\ name \in module._groups_methods THEN "groups"
                     ELSE "own"
        IN  IF table # "own"
            THEN /\ attr_ret.kind = "return"
                 /\ attr_ret.value.type = "callable"
                 /\ attr_ret.value.table = table
                 /\ attr_ret.value.func = name
            ELSE name \in OwnAttrs(wrapper.obj) =>
                 /\ attr_ret.kind = "return"
                 /\ attr_ret.value.type = "attribute"
                 /\ attr_ret.value.func = name

---------------------------------------------------------------------------
\* Properties of the ModelingData operations.

\* An instance as the data model describes it: features and targets share a
\* unique row index and every row carries a class label.
WellFormed(md) ==
    /\ md.features.kind = "DataFrame"
    /\ md.targets.kind = "Series"
    /\ md.features.index = md.targets.index
    /\ IsUnique(md.features.index)
    /\ PdLen(md.features) > 0
    /\ \A i \in 1..Len(md.targets.data) : md.targets.data[i] \in Range(Classes)

\* The rows (1-based) of md whose target is the class c.
RowsOfClass(md, c) == {i \in 1..Len(md.targets.data) : md.targets.data[i] = c}

ClassesOf(md) == {md.targets.data[i] : i \in 1..Len(md.targets.data)}

\* The least number of rows any class of md has.
MinClassCount(md) ==
    CHOOSE m \in 0..PdLen(md.targets) :
        /\ \E c \in ClassesOf(md) : Cardinality(RowsOfClass(md, c)) = m
        /\ \A c \in ClassesOf(md) : Cardinality(RowsOfClass(md, c)) >= m

\* The row labels of the first m rows of class c, in the row order of md.
FirstLabels(md, c, m) ==
    {md.features.index[i] : i \in {r \in RowsOfClass(md, c) :
        Cardinality({q \in RowsOfClass(md, c) : q < r}) < m}}

\* Row i of the instance r is the row of `self` that carries the same label,
\* features and target alike.
RowOfSelf(r, i) ==
    \E j \in 1..PdLen(self.features) :
        /\ self.features.index[j] = r.features.index[i]
        /\ r.targets.index[i] = r.features.index[i]
        /\ r.features.data[i] = self.features.data[j]
        /\ r.targets.data[i] = self.targets.data[j]

\* The object `obj` of the receiver, cut to the rows at the 0-based positions.
AtPositions(obj, positions) ==
    [i \in 1..Len(positions) |-> obj.data[positions[i] + 1]]

SplitReturned == call.op = "train_test_split" /\ ret.kind = "return"

\* C1: after train_test_split, the test instance's targets are the values of
\* self.targets at the test-row positions, one per test row, and the train
\* instance's targets are the values of self.targets at the train-row positions.
C1_TargetsFromTargets ==
    SplitReturned =>
        LET train == ret.value[1]
            test == ret.value[2]
        IN  /\ test.targets.kind = self.targets.kind
            /\ train.targets.kind = self.targets.kind
            /\ PdLen(test.targets) = PdLen(test.features)
            /\ test.targets.data = AtPositions(self.targets, call.test)
            /\ train.targets.data = AtPositions(self.targets, call.train)

\* C3: with a unique row index and a test_size alone, train and test row counts
\* sum to the receiver's, their index sets are disjoint and cover the receiver's
\* index set, and the rows are those at the positions the shuffle-split drew.
C3_SplitPartitionsIndex ==
    (SplitReturned /\ call.train_size = NoneArg /\ IsUnique(self.features.index)) =>
        LET train == ret.value[1]
            test == ret.value[2]
        IN  /\ PdLen(train.features) + PdLen(test.features) = PdLen(self.features)
            /\ Range(train.features.index) \cap Range(test.features.index) = {}
            /\ Range(train.features.index) \cup Range(test.features.index)
                   = Range(self.features.index)
            /\ train.features.index =
                   [i \in 1..Len(call.train) |-> self.features.index[call.train[i] + 1]]
            /\ test.features.index =
                   [i \in 1..Len(call.test) |-> self.features.index[call.test[i] + 1]]

TruncateCalled == call.op = "get_balanced" /\ call.how = "truncate"

SampleCalled == call.op = "get_balanced" /\ call.how = "sample"

\* C4: get_balanced('truncate') on an instance of the data model returns an
\* instance holding, for each class, exactly the first m rows of that class in
\* row order, m the least class count: m * num_classes rows and no other row.
C4_TruncateKeepsFirstRows ==
    (TruncateCalled /\ WellFormed(self)) =>
        /\ ret.kind = "return"
        /\ LET r == ret.value
               m == MinClassCount(self)
           IN  /\ PdLen(r.features) = m * Cardinality(ClassesOf(self))
               /\ PdLen(r.targets) = PdLen(r.features)
               /\ IsUnique(r.features.index)
               /\ \A i \in 1..PdLen(r.features) : RowOfSelf(r, i)
               /\ \A c \in ClassesOf(self) :
                      /\ Cardinality(RowsOfClass(r, c)) = m
                      /\ {r.features.index[i] : i \in RowsOfClass(r, c)}
                             = FirstLabels(self, c, m)

\* C4's case: a truncation that drops rows of a larger class.
C4_Witness ==
    /\ TruncateCalled
    /\ WellFormed(self)
    /\ ret.kind = "return"
    /\ Cardinality(ClassesOf(self)) >= 2
    /\ PdLen(ret.value.features) < PdLen(self.features)
    /\ PdLen(ret.value.features) > 0

\* C5: get_balanced('sample') on an instance of the data model with n rows and
\* c classes returns k = n \div c rows per class, k * c rows in all, each one a
\* row of the receiver together with its own target label.
C5_SampleDrawsPerClass ==
    (SampleCalled /\ WellFormed(self)) =>
        /\ ret.kind = "return"
        /\ LET r == ret.value
               k == PdLen(self.features) \div Cardinality(ClassesOf(self))
           IN  /\ PdLen(r.features) = k * Cardinality(ClassesOf(self))
               /\ PdLen(r.targets) = PdLen(r.features)
               /\ \A c \in ClassesOf(self) : Cardinality(RowsOfClass(r, c)) = k
               /\ \A i \in 1..PdLen(r.features) : RowOfSelf(r, i)

\* C5's case: the class count does not divide the row count.
C5_Witness ==
    /\ SampleCalled
    /\ WellFormed(self)
    /\ ret.kind = "return"
    /\ PdLen(self.features) % Cardinality(ClassesOf(self)) # 0
    /\ PdLen(ret.value.features) > 0

\* md pairs every feature row with the target the first instance holds for
\* that row's index label.
Aligned(md) ==
    /\ md.targets.kind = "Series"
    /\ PdLen(md.features) = PdLen(md.targets)
    /\ \A i \in 1..PdLen(md.features) :
           \E j \in 1..PdLen(orig.targets) :
               /\ orig.targets.index[j] = md.features.index[i]
               /\ orig.targets.data[j] = md.targets.data[i]

\* C6: every instance a sequence of the derived operations produces has as many
\* targets as feature rows and, at each position, the target the original
\* instance holds for the index label of the feature row at that position.
C6_AlignmentPreserved ==
    /\ Aligned(self)
    /\ \A md \in Returned(call, ret) : Aligned(md)

\* C9 as stated: an unsupported `how` fails with an error naming that value.
C9_ErrorNamesHow ==
    (call.op = "get_balanced" /\ call.how \notin {"truncate", "sample"}) =>
        /\ ret.kind = "raise"
        /\ \E i \in 1..Len(ret.args) : ret.args[i] = call.how

\* r is an outcome of sampling md with replacement: k = n \div c labels drawn
\* from each class in turn, or the error the sampling ends with.
IsSampleOutcome(md, r) ==
    IF md.targets.kind # "Series" \/ num_classes(md) = 0
    THEN r.kind = "raise"
    ELSE LET cls == SortedClasses(md.targets)
             k == PdLen(md.features) \div Len(cls)
             drawn == r.value.features.index
         IN  /\ r.kind = "return"
             /\ Len(drawn) = k * Len(cls)
             /\ \A j \in 1..Len(cls) : \A i \in 1..k :
                    drawn[(j - 1) * k + i] \in Range(GroupIndex(md.targets, md.targets, cls[j]))
             /\ r.value = ModelingData(Ix(md.features, drawn), Ix(md.targets, drawn))

\* C9, amended: get_balanced returns the truncation result for 'truncate' and a
\* sampling result for 'sample' (the default); for any other `how` it returns
\* no instance and raises an AttributeError that carries no arguments; the
\* receiver is the instance it was before the call.
C9_Dispatch ==
    (call.op = "get_balanced") =>
        /\ call.how = "truncate" => ret = _balance_by_truncation(self)
        /\ call.how = "sample" => IsSampleOutcome(self, ret)
        /\ call.how \notin {"truncate", "sample"} =>
               /\ ret.kind = "raise"
               /\ ret.exc = "AttributeError"
               /\ ret.args = <<>>
        /\ depth = 0 => self = orig

\* C9's case: get_balanced was called with an unsupported `how`.
C9_Witness ==
    /\ call.op = "get_balanced"
    /\ call.how = "bogus"
    /\ ret.kind = "raise"

===========================================================================
